---- MODULE Spec2Model ----
(***************************************************************************)
(* ReferenceQueryService of query-typegoose: the relation read operations  *)
(* (findRelation, queryRelations, aggregateRelations, countRelations) and  *)
(* the relation mutations (addRelations, setRelation, removeRelation,      *)
(* removeRelations) over a primary collection of entities and a target     *)
(* collection of related documents.                                        *)
(***************************************************************************)
EXTENDS Integers, Sequences, FiniteSets, TLC

(* ---- bounds ---- *)
MaxTags == 2      \* longest reference array stored on an entity
MaxIds == 2       \* longest relationIds list given to addRelations / removeRelations
MaxBatch == 2     \* longest entity list given to a batched read
MaxOthers == 1    \* updates of other callers of the service that commit in a behaviour

(* ---- the two collections ---- *)
EntityIds == {"e1", "e2"}
TargetIds == {"t1", "t2"}
NoVal == "undefined"

\* natural (insertion) order of the target collection
TargetOrder == <<"t1", "t2">>

\* the fields of a target document that no operation of the service writes
TargetFields == [t1 |-> [scope |-> "a", fkey |-> "k1"],
                 t2 |-> [scope |-> "b", fkey |-> "k1"]]

\* the fields of an entity that no operation of the service writes
EntityFields == [e1 |-> [grp |-> "a", key |-> "k1"],
                 e2 |-> [grp |-> "b", key |-> NoVal]]

Range(s) == {s[i] : i \in 1..Len(s)}

SeqsUpTo(S, n) == UNION {[1..k -> S] : k \in 0..n}

EntityDoc(id, owner, tags) ==
  [_id |-> id, grp |-> EntityFields[id].grp, key |-> EntityFields[id].key,
   owner |-> owner, tags |-> tags]

TargetDoc(id) ==
  [_id |-> id, scope |-> TargetFields[id].scope, fkey |-> TargetFields[id].fkey]

(* ---- the schema of the entity model ---- *)
\* Model.schema.path(name): direct paths; ref is the referenced model, if any
SchemaPaths ==
  [owner |-> [array |-> FALSE, ref |-> "Target"],
   tags  |-> [array |-> TRUE,  ref |-> "Target"],
   grp   |-> [array |-> FALSE, ref |-> NoVal],
   key   |-> [array |-> FALSE, ref |-> NoVal]]

\* Model.schema.virtualpath(name): virtual lookups
VirtualPaths ==
  [vone  |-> [ref |-> "Target", localField |-> "key", foreignField |-> "fkey", justOne |-> TRUE],
   vmany |-> [ref |-> "Target", localField |-> "key", foreignField |-> "fkey", justOne |-> FALSE]]

RelationNames == {"owner", "tags", "vone", "vmany", "grp", "nope"}

(* ---- errors ---- *)
\* a fault is the kind of its message and the name the message carries
Err(kind, detail) == [kind |-> kind, detail |-> detail]
NoErr == Err("none", "")
ErrUnknownRelation(refName) == Err("Unable to find reference", refName)
ErrNotSupported(operation) == Err("not supported for virtual relation", operation)
ErrLookup(refName) == Err("Unable to lookup reference type", refName)
ErrFindAll(verb) == Err("Unable to find all", verb)
ErrFindOne(verb) == Err("Unable to find", verb)
ErrNotFound(id) == Err("NotFoundException", id)

(* ---- filters ---- *)
IsArray(v) == v \in Seq(TargetIds)

\* a filter is a conjunction (set) of comparisons; the empty set matches all.
\* val is the list of operands: the ids of "in", the one value of "eq"
Cmp(field, op, val) ==
  [field |-> field, op |-> op, val |-> IF IsArray(val) THEN val ELSE <<val>>]

MatchesCmp(doc, c) ==
  IF c.op = "in" THEN doc[c.field] \in Range(c.val) ELSE doc[c.field] = c.val[1]

Matches(doc, filter) == \A c \in filter : MatchesCmp(doc, c)

mergeFilter(base, source) == base \cup source

\* FilterQueryBuilder.buildIdFilterQuery with a list of ids or with one id
buildIdFilterQuery(id, filter) ==
  mergeFilter(filter, {Cmp("_id", IF IsArray(id) THEN "in" ELSE "eq", id)})

isReferencePath(refName) == refName \in DOMAIN SchemaPaths

isVirtualPath(refName) == refName \in DOMAIN VirtualPaths

\* mutant: a virtual relation is rejected whatever the operation allows
checkForReferenceRejectVirtual(operation, refName, allowVirtual) ==
  IF isReferencePath(refName) THEN NoErr
  ELSE IF isVirtualPath(refName) THEN ErrNotSupported(operation)
       ELSE ErrUnknownRelation(refName)

checkForReference(operation, refName, allowVirtual) ==
  IF isReferencePath(refName) THEN NoErr
  ELSE IF isVirtualPath(refName)
       THEN IF allowVirtual THEN NoErr ELSE ErrNotSupported(operation)
       ELSE ErrUnknownRelation(refName)

\* the referenced model, or the lookup error
getReferenceModel(refName) ==
  IF isReferencePath(refName)
  THEN IF SchemaPaths[refName].ref # NoVal
       THEN [err |-> NoErr, model |-> SchemaPaths[refName].ref]
       ELSE [err |-> ErrLookup(refName), model |-> NoVal]
  ELSE IF isVirtualPath(refName)
       THEN [err |-> NoErr, model |-> VirtualPaths[refName].ref]
       ELSE [err |-> ErrLookup(refName), model |-> NoVal]

getObjectIdReferenceFilter(refName, entity, filter) ==
  LET referenceIds == entity[refName]
  IN mergeFilter(filter, {Cmp("_id", IF IsArray(referenceIds) THEN "in" ELSE "eq", referenceIds)})

getVirtualReferenceFilter(virtualType, entity, filter) ==
  LET refVal == entity[virtualType.localField]
  IN mergeFilter(filter,
       {Cmp(virtualType.foreignField, IF IsArray(refVal) THEN "in" ELSE "eq", refVal)})

\* the reference filter, or none ([defined |-> FALSE]) when the name is no path at all
getReferenceFilter(refName, entity, filter) ==
  IF isReferencePath(refName)
  THEN [defined |-> TRUE, filter |-> getObjectIdReferenceFilter(refName, entity, filter)]
  ELSE IF isVirtualPath(refName)
       THEN [defined |-> TRUE,
             filter |-> getVirtualReferenceFilter(VirtualPaths[refName], entity, filter)]
       ELSE [defined |-> FALSE, filter |-> {}]

(* ---- store operations on the target collection T ---- *)
\* T: function from the ids of the stored target documents to their documents
TargetMatches(T, filter) == {t \in DOMAIN T : Matches(T[t], filter)}

TargetCount(T, filter) == Cardinality(TargetMatches(T, filter))

\* the matching documents in natural order
TargetFind(T, filter) ==
  LET ids == SelectSeq(TargetOrder, LAMBDA t : t \in TargetMatches(T, filter))
  IN [i \in 1..Len(ids) |-> T[ids[i]]]

Take(s, limit) == IF limit = 0 \/ Len(s) <= limit THEN s ELSE SubSeq(s, 1, limit)

Undefined == [undefined |-> TRUE]

\* document.populate({path, match, options}).get(path)
Populate(T, entity, path, match, limit) ==
  IF isReferencePath(path)
  THEN IF SchemaPaths[path].array
       THEN LET ids == SelectSeq(entity[path],
                         LAMBDA t : t \in DOMAIN T /\ Matches(T[t], match))
            IN Take([i \in 1..Len(ids) |-> T[ids[i]]], limit)
       ELSE LET t == entity[path]
            IN IF t \in DOMAIN T /\ Matches(T[t], match) THEN T[t] ELSE Undefined
  ELSE LET vt == VirtualPaths[path]
           local == entity[vt.localField]
           found == IF local = NoVal THEN <<>>
                    ELSE TargetFind(T, mergeFilter(match, {Cmp(vt.foreignField, "eq", local)}))
       IN IF vt.justOne
          THEN IF found = <<>> THEN Undefined ELSE found[1]
          ELSE Take(found, limit)

\* the $group stage with _id null: no row when nothing matches
EmptyAgg == {}

Aggregate(T, filter) ==
  IF TargetCount(T, filter) = 0 THEN EmptyAgg
  ELSE {<<"count", TargetCount(T, filter)>>}

\* mutant: the relation-filter is left out of the count query
getRefCountNoFilter(T, relationName, relationIds, filter) ==
  LET m == getReferenceModel(relationName)
  IN IF m.err # NoErr THEN [err |-> m.err, count |-> 0, io |-> <<>>]
     ELSE [err |-> NoErr,
           count |-> TargetCount(T, buildIdFilterQuery(relationIds, {})),
           io |-> <<"target.count">>]

getRefCount(T, relationName, relationIds, filter) ==
  LET m == getReferenceModel(relationName)
  IN IF m.err # NoErr THEN [err |-> m.err, count |-> 0, io |-> <<>>]
     ELSE [err |-> NoErr,
           count |-> TargetCount(T, buildIdFilterQuery(relationIds, filter)),
           io |-> <<"target.count">>]

(* ---- store operations on the primary collection P ---- *)
Push(field, ids) == [kind |-> "push", field |-> field, val |-> ids]
SetField(field, id) == [kind |-> "set", field |-> field, val |-> id]
Unset(field, id) == [kind |-> "unset", field |-> field, val |-> id]
PullAll(field, ids) == [kind |-> "pullAll", field |-> field, val |-> ids]

\* mutant: the pushed ids are put in front of the stored ones
ApplyUpdatePushFront(doc, u) ==
  CASE u.kind = "push" -> [doc EXCEPT ![u.field] = u.val \o @]
    [] u.kind = "set" -> [doc EXCEPT ![u.field] = u.val]
    [] u.kind = "unset" -> [doc EXCEPT ![u.field] = NoVal]
    [] u.kind = "pullAll" ->
         [doc EXCEPT ![u.field] = SelectSeq(@, LAMBDA x : x \notin Range(u.val))]

\* mutant: a field that already holds a value is not overwritten
ApplyUpdateSetIfUnset(doc, u) ==
  CASE u.kind = "push" -> [doc EXCEPT ![u.field] = @ \o u.val]
    [] u.kind = "set" -> [doc EXCEPT ![u.field] = IF @ = NoVal THEN u.val ELSE @]
    [] u.kind = "unset" -> [doc EXCEPT ![u.field] = NoVal]
    [] u.kind = "pullAll" ->
         [doc EXCEPT ![u.field] = SelectSeq(@, LAMBDA x : x \notin Range(u.val))]

\* mutant: the field is unset only when it holds the given id
ApplyUpdateUnsetIfEqual(doc, u) ==
  CASE u.kind = "push" -> [doc EXCEPT ![u.field] = @ \o u.val]
    [] u.kind = "set" -> [doc EXCEPT ![u.field] = u.val]
    [] u.kind = "unset" -> [doc EXCEPT ![u.field] = IF @ = u.val THEN NoVal ELSE @]
    [] u.kind = "pullAll" ->
         [doc EXCEPT ![u.field] = SelectSeq(@, LAMBDA x : x \notin Range(u.val))]

\* mutant: only the first occurrence of each given id is pulled
ApplyUpdatePullFirst(doc, u) ==
  CASE u.kind = "push" -> [doc EXCEPT ![u.field] = @ \o u.val]
    [] u.kind = "set" -> [doc EXCEPT ![u.field] = u.val]
    [] u.kind = "unset" -> [doc EXCEPT ![u.field] = NoVal]
    [] u.kind = "pullAll" ->
         LET s == doc[u.field]
             keep == {i \in 1..Len(s) :
                        ~(s[i] \in Range(u.val) /\ \A j \in 1..(i - 1) : s[j] # s[i])}
             nth(k) == CHOOSE i \in keep : Cardinality({j \in keep : j <= i}) = k
         IN [doc EXCEPT ![u.field] = [k \in 1..Cardinality(keep) |-> s[nth(k)]]]

ApplyUpdate(doc, u) ==
  CASE u.kind = "push" -> [doc EXCEPT ![u.field] = @ \o u.val]
    [] u.kind = "set" -> [doc EXCEPT ![u.field] = u.val]
    [] u.kind = "unset" -> [doc EXCEPT ![u.field] = NoVal]
    [] u.kind = "pullAll" ->
         [doc EXCEPT ![u.field] = SelectSeq(@, LAMBDA x : x \notin Range(u.val))]

\* mutant: the entity is located by id alone
findAndUpdateByIdOnly(P, id, filter, query) ==
  LET found == {e \in DOMAIN P : Matches(P[e], buildIdFilterQuery(id, {}))}
  IN IF found = {}
     THEN [err |-> ErrNotFound(id), entity |-> Undefined, primary |-> P]
     ELSE LET e == CHOOSE x \in found : TRUE
              updated == ApplyUpdate(P[e], query)
          IN [err |-> NoErr, entity |-> updated, primary |-> [P EXCEPT ![e] = updated]]

\* mutant: every entity that satisfies the caller filter is updated
findAndUpdateMany(P, id, filter, query) ==
  LET found == {e \in DOMAIN P : Matches(P[e], buildIdFilterQuery(id, filter))}
      all == {e \in DOMAIN P : Matches(P[e], filter)}
  IN IF found = {}
     THEN [err |-> ErrNotFound(id), entity |-> Undefined, primary |-> P]
     ELSE LET e == CHOOSE x \in found : TRUE
              updated == ApplyUpdate(P[e], query)
          IN [err |-> NoErr, entity |-> updated,
              primary |-> [x \in DOMAIN P |->
                             IF x \in all THEN ApplyUpdate(P[x], query) ELSE P[x]]]

\* Model.findOneAndUpdate(buildIdFilterQuery(id, filter), query, {new: true})
findAndUpdate(P, id, filter, query) ==
  LET found == {e \in DOMAIN P : Matches(P[e], buildIdFilterQuery(id, filter))}
  IN IF found = {}
     THEN [err |-> ErrNotFound(id), entity |-> Undefined, primary |-> P]
     ELSE LET e == CHOOSE x \in found : TRUE
              updated == ApplyUpdate(P[e], query)
          IN [err |-> NoErr, entity |-> updated, primary |-> [P EXCEPT ![e] = updated]]

\* the reload of the remove operations
getById(P, id) ==
  IF id \in DOMAIN P THEN [err |-> NoErr, entity |-> P[id]]
  ELSE [err |-> ErrNotFound(id), entity |-> Undefined]

(* ---- results ---- *)
\* the outcome of one store call of a read: the fault, the value, the calls issued
R(err, val, io) == [err |-> err, val |-> val, io |-> io]

\* the outcome of the first store call of the resolution of one entity: pending
\* says that the relation is still to be populated on the entity found
O(err, val, io, pending, found) ==
  [err |-> err, val |-> val, io |-> io, pending |-> pending, found |-> found]

\* mutant: every set adds an entry, as a list of pairs would
MapSetAppend(map, key, value) == Append(map, [key |-> key, value |-> value])

\* Map.set on an insertion-ordered map: a key already present keeps its place
MapSet(map, key, value) ==
  IF \E i \in 1..Len(map) : map[i].key = key
  THEN [i \in 1..Len(map) |->
          IF map[i].key = key THEN [key |-> key, value |-> value] ELSE map[i]]
  ELSE Append(map, [key |-> key, value |-> value])

\* the operation name each operation passes to checkForReference
OperationName ==
  [findRelation |-> "FindRelation", queryRelations |-> "QueryRelations",
   aggregateRelations |-> "AggregateRelations", countRelations |-> "CountRelations",
   addRelations |-> "AddRelations", setRelation |-> "SetRelation",
   removeRelation |-> "RemoveRelation", removeRelations |-> "RemoveRelations"]

(* ---- read operations, store call by store call ---- *)
\* a dto is an entity object held by the caller: obj is the identity of the
\* object, doc the field values of the caller's copy

\* mutant: the target model is looked up before the relation name is checked
readChecksModelFirst(op, relationName) ==
  LET chk == checkForReference(OperationName[op], relationName, TRUE)
      m == getReferenceModel(relationName)
  IN IF op = "aggregateRelations" /\ m.err # NoErr THEN m.err
     ELSE chk

\* what a read does before it resolves its first entity: the relation check and,
\* in aggregateRelations, the lookup of the target model
readChecks(op, relationName) ==
  LET chk == checkForReference(OperationName[op], relationName, TRUE)
      m == getReferenceModel(relationName)
  IN IF chk # NoErr THEN chk
     ELSE IF op = "aggregateRelations" /\ m.err # NoErr THEN m.err
     ELSE NoErr

\* findRelation, first store call: Model.findById(dto._id), then the model lookup
findRelationFetch(P, relationName, dto) ==
  LET m == getReferenceModel(relationName)
  IN IF dto.doc._id \notin DOMAIN P
     THEN O(NoErr, Undefined, <<"primary.findById">>, FALSE, NoVal)
     ELSE IF m.err # NoErr THEN O(m.err, NoVal, <<"primary.findById">>, FALSE, NoVal)
     ELSE O(NoErr, NoVal, <<"primary.findById">>, TRUE, P[dto.doc._id])

\* findRelation, second store call: populate on the entity found
findRelationPopulate(T, relationName, found, filter) ==
  R(NoErr, Populate(T, found, relationName, filter, 0), <<"target.find">>)

\* mutant: the relation is populated on the caller's copy, not on the stored entity
queryRelationsFetchKeepsCopy(P, relationName, dto) ==
  IF dto.doc._id \notin DOMAIN P
  THEN O(NoErr, <<>>, <<"primary.findById">>, FALSE, NoVal)
  ELSE O(NoErr, NoVal, <<"primary.findById">>, TRUE, dto.doc)

\* mutant: a missing source entity raises
queryRelationsFetchRaises(P, relationName, dto) ==
  IF dto.doc._id \notin DOMAIN P
  THEN O(ErrNotFound(dto.doc._id), NoVal, <<"primary.findById">>, FALSE, NoVal)
  ELSE O(NoErr, NoVal, <<"primary.findById">>, TRUE, P[dto.doc._id])

\* queryRelations, first store call: Model.findById(dto._id)
queryRelationsFetch(P, relationName, dto) ==
  IF dto.doc._id \notin DOMAIN P
  THEN O(NoErr, <<>>, <<"primary.findById">>, FALSE, NoVal)
  ELSE O(NoErr, NoVal, <<"primary.findById">>, TRUE, P[dto.doc._id])

\* queryRelations, second store call: populate on the entity found
queryRelationsPopulate(T, relationName, found, filter, limit) ==
  R(NoErr, Populate(T, found, relationName, filter, limit), <<"target.find">>)

\* aggregateRelations on one entity: its one store call
aggregateRelationsOne(T, relationName, dto, filter) ==
  LET chk == checkForReference("AggregateRelations", relationName, TRUE)
      m == getReferenceModel(relationName)
      refFilter == getReferenceFilter(relationName, dto.doc, filter)
  IN IF chk # NoErr THEN R(chk, NoVal, <<>>)
     ELSE IF m.err # NoErr THEN R(m.err, NoVal, <<>>)
     ELSE IF ~refFilter.defined THEN R(NoErr, EmptyAgg, <<>>)
     ELSE R(NoErr, Aggregate(T, refFilter.filter), <<"target.aggregate">>)

\* countRelations on one entity: its one store call
countRelationsOne(T, relationName, dto, filter) ==
  LET chk == checkForReference("CountRelations", relationName, TRUE)
      m == getReferenceModel(relationName)
      refFilter == getReferenceFilter(relationName, dto.doc, filter)
  IN IF chk # NoErr THEN R(chk, NoVal, <<>>)
     ELSE IF m.err # NoErr THEN R(m.err, NoVal, <<>>)
     ELSE IF ~refFilter.defined THEN R(NoErr, 0, <<>>)
     ELSE R(NoErr, TargetCount(T, refFilter.filter), <<"target.count">>)

\* the first store call of the read c on the entity dto
FirstCall(P, T, c, dto) ==
  CASE c.op = "findRelation" -> findRelationFetch(P, c.rel, dto)
    [] c.op = "queryRelations" -> queryRelationsFetch(P, c.rel, dto)
    [] c.op = "aggregateRelations" ->
         LET r == aggregateRelationsOne(T, c.rel, dto, c.filter)
         IN O(r.err, r.val, r.io, FALSE, NoVal)
    [] c.op = "countRelations" ->
         LET r == countRelationsOne(T, c.rel, dto, c.filter)
         IN O(r.err, r.val, r.io, FALSE, NoVal)

\* the second store call of the read c on the entity found
SecondCall(T, c, found) ==
  IF c.op = "findRelation"
  THEN findRelationPopulate(T, c.rel, found, c.filter)
  ELSE queryRelationsPopulate(T, c.rel, found, c.filter, c.limit)

(* ---- mutation operations, store call by store call ---- *)
\* each mutation first checks the relation name and counts the target documents
\* that match the given ids under the relation-filter (one store call); the
\* outcome carries the fault raised before the update, if any

\* mutant: the call is rejected only when none of the ids is found
addRelationsVerifyAnyFound(T, relationName, relationIds, relationFilter) ==
  LET chk == checkForReference("AddRelations", relationName, FALSE)
      rc == getRefCount(T, relationName, relationIds, relationFilter)
  IN IF chk # NoErr THEN R(chk, NoVal, <<>>)
     ELSE IF rc.err # NoErr THEN R(rc.err, NoVal, rc.io)
     ELSE IF Len(relationIds) > 0 /\ rc.count = 0 THEN R(ErrFindAll("add"), NoVal, rc.io)
     ELSE R(NoErr, NoVal, rc.io)

addRelationsVerify(T, relationName, relationIds, relationFilter) ==
  LET chk == checkForReference("AddRelations", relationName, FALSE)
      rc == getRefCount(T, relationName, relationIds, relationFilter)
  IN IF chk # NoErr THEN R(chk, NoVal, <<>>)
     ELSE IF rc.err # NoErr THEN R(rc.err, NoVal, rc.io)
     ELSE IF Len(relationIds) # rc.count THEN R(ErrFindAll("add"), NoVal, rc.io)
     ELSE R(NoErr, NoVal, rc.io)

\* mutant: the call is rejected only when more than one document is found
setRelationVerifyAtMostOne(T, relationName, relationId, relationFilter) ==
  LET chk == checkForReference("SetRelation", relationName, FALSE)
      rc == getRefCount(T, relationName, <<relationId>>, relationFilter)
  IN IF chk # NoErr THEN R(chk, NoVal, <<>>)
     ELSE IF rc.err # NoErr THEN R(rc.err, NoVal, rc.io)
     ELSE IF rc.count > 1 THEN R(ErrFindOne("set"), NoVal, rc.io)
     ELSE R(NoErr, NoVal, rc.io)

setRelationVerify(T, relationName, relationId, relationFilter) ==
  LET chk == checkForReference("SetRelation", relationName, FALSE)
      rc == getRefCount(T, relationName, <<relationId>>, relationFilter)
  IN IF chk # NoErr THEN R(chk, NoVal, <<>>)
     ELSE IF rc.err # NoErr THEN R(rc.err, NoVal, rc.io)
     ELSE IF rc.count # 1 THEN R(ErrFindOne("set"), NoVal, rc.io)
     ELSE R(NoErr, NoVal, rc.io)

removeRelationVerify(T, relationName, relationId, relationFilter) ==
  LET chk == checkForReference("RemoveRelation", relationName, FALSE)
      rc == getRefCount(T, relationName, <<relationId>>, relationFilter)
  IN IF chk # NoErr THEN R(chk, NoVal, <<>>)
     ELSE IF rc.err # NoErr THEN R(rc.err, NoVal, rc.io)
     ELSE IF rc.count # 1 THEN R(ErrFindOne("remove"), NoVal, rc.io)
     ELSE R(NoErr, NoVal, rc.io)

\* mutant: the relation name is checked with virtual relations allowed
removeRelationsVerifyAllowVirtual(T, relationName, relationIds, relationFilter) ==
  LET chk == checkForReference("RemoveRelations", relationName, TRUE)
      rc == getRefCount(T, relationName, relationIds, relationFilter)
  IN IF chk # NoErr THEN R(chk, NoVal, <<>>)
     ELSE IF rc.err # NoErr THEN R(rc.err, NoVal, rc.io)
     ELSE IF Len(relationIds) # rc.count THEN R(ErrFindAll("remove"), NoVal, rc.io)
     ELSE IF isVirtualPath(relationName)
          THEN R(ErrNotSupported("RemoveRelations"), NoVal, rc.io)
     ELSE R(NoErr, NoVal, rc.io)

removeRelationsVerify(T, relationName, relationIds, relationFilter) ==
  LET chk == checkForReference("RemoveRelations", relationName, FALSE)
      rc == getRefCount(T, relationName, relationIds, relationFilter)
  IN IF chk # NoErr THEN R(chk, NoVal, <<>>)
     ELSE IF rc.err # NoErr THEN R(rc.err, NoVal, rc.io)
     ELSE IF Len(relationIds) # rc.count THEN R(ErrFindAll("remove"), NoVal, rc.io)
     ELSE IF isVirtualPath(relationName)
          THEN R(ErrNotSupported("RemoveRelations"), NoVal, rc.io)
     ELSE R(NoErr, NoVal, rc.io)

\* the first store call of the mutation c
verifyRelationIds(T, c) ==
  CASE c.op = "addRelations" -> addRelationsVerify(T, c.rel, c.ids, c.relFilter)
    [] c.op = "setRelation" -> setRelationVerify(T, c.rel, c.ids[1], c.relFilter)
    [] c.op = "removeRelation" -> removeRelationVerify(T, c.rel, c.ids[1], c.relFilter)
    [] c.op = "removeRelations" -> removeRelationsVerify(T, c.rel, c.ids, c.relFilter)

\* the update document the mutation c passes to findAndUpdate
updateQuery(c) ==
  CASE c.op = "addRelations" -> Push(c.rel, c.ids)
    [] c.op = "setRelation" -> SetField(c.rel, c.ids[1])
    [] c.op = "removeRelation" -> Unset(c.rel, c.ids[1])
    [] c.op = "removeRelations" -> PullAll(c.rel, c.ids)

(* ---- state ---- *)
VARIABLES
  primary,   \* the primary collection: stored entity id -> entity document
  targets,   \* the target collection: stored target id -> target document
  pc,        \* where the call is: "idle", between two of its store calls
             \* ("populate", "next", "verified", "updated"), or "done" while the
             \* caller holds the outcome
  call,      \* the operation called and its arguments
  local,     \* what the call holds between its store calls: the index of the
             \* entity being resolved, the map built so far and, of the entity
             \* found, the fields populate reads
  ret,       \* the outcome of the call: the fault raised or the value returned
  io,        \* the store calls the call issued, in order
  added,     \* the last successful addRelations not followed by another write
  others     \* the updates of other callers of the service committed so far

vars == <<primary, targets, pc, call, local, ret, io, added, others>>

(* ---- inputs ---- *)
\* copies of entities a caller may hold: the two entities as they were created
DtoPool == {EntityDoc("e1", NoVal, <<>>), EntityDoc("e2", "t2", <<"t2">>)}

Dto(obj, doc) == [obj |-> obj, doc |-> doc]

Dtos == {Dto(obj, doc) : obj \in 1..MaxBatch, doc \in DtoPool}

MaxOf(S) == IF S = {} THEN 0 ELSE CHOOSE m \in S : \A x \in S : x <= m

\* objects are numbered in order of first occurrence; one object has one content
WellFormedBatch(s) ==
  /\ \A i \in 1..Len(s) : s[i].obj <= 1 + MaxOf({s[j].obj : j \in 1..(i - 1)})
  /\ \A i, j \in 1..Len(s) : s[i].obj = s[j].obj => s[i].doc = s[j].doc

Batches == {s \in SeqsUpTo(Dtos, MaxBatch) : WellFormedBatch(s)}

Singles == {<<Dto(1, doc)>> : doc \in DtoPool}

DtoArgs(batched) == IF batched THEN Batches ELSE Singles

TargetFilters == {{}, {Cmp("scope", "eq", "a")}}

\* a batched read passes its filter and paging unchanged to the read of each
\* entity: batches are called without either
ReadFilters(batched) == IF batched THEN {{}} ELSE TargetFilters

EntityFilters == {{}, {Cmp("grp", "eq", "a")}, {Cmp("grp", "eq", "b")}}

\* paging of a query: 0 is no limit
Limits == {0, 1}

ReadLimits(batched) == IF batched THEN {0} ELSE Limits

\* relation names by the shape each operation is declared for
SingleRels == {"owner", "vone", "grp", "nope"}
ManyRels == {"tags", "vmany", "nope"}
ArrayMutRels == {"tags", "vmany", "grp", "nope"}

\* countRelations and aggregateRelations build the reference filter from the
\* caller's copy, for a single reference as for an array
CountRels == ManyRels \cup {"owner"}

\* a batch resolves each entity as the single read does: virtual relations are
\* read by single reads
ReadRels(rels, batched) == IF batched THEN rels \ {"vone", "vmany"} ELSE rels

MutIds == {"e1"}

\* a mutation of a name that is no reference to a model is rejected by the
\* relation check or by the lookup of the target model, whatever its filters: it
\* is called without filters
RefersToModel(rel) == isReferencePath(rel) /\ getReferenceModel(rel).err = NoErr
MutRelFilters(rel) == IF RefersToModel(rel) THEN TargetFilters ELSE {{}}
MutEntFilters(rel) == IF RefersToModel(rel) THEN EntityFilters ELSE {{}}

IdLists == SeqsUpTo(TargetIds, MaxIds)

\* what the other callers of the service mutate: the single reference and the
\* reference array of either entity, with any ids. No operation writes the
\* entity fields a filter compares, so an entity filter only decides whether an
\* update applies, and a relation filter only whether the count before it
\* passes: the other callers pass none
OtherIds == EntityIds
OtherArrayIds == EntityIds
OtherIdLists == IdLists
OtherRelFilters == {{}}
OtherEntFilters == {{}}

ReadCall(op, rel, batched, dtos, filter, limit) ==
  [op |-> op, rel |-> rel, batched |-> batched, dtos |-> dtos, filter |-> filter,
   limit |-> limit, id |-> NoVal, ids |-> <<>>, relFilter |-> {}, entFilter |-> {}]

MutCall(op, rel, id, ids, relFilter, entFilter) ==
  [op |-> op, rel |-> rel, batched |-> FALSE, dtos |-> <<>>, filter |-> {},
   limit |-> 0, id |-> id, ids |-> ids, relFilter |-> relFilter, entFilter |-> entFilter]

NoCall == ReadCall("none", NoVal, FALSE, <<>>, {}, 0)

NoRet == [err |-> NoErr, val |-> NoVal]

NoAdd == [id |-> NoVal, ids |-> <<>>]

Local(k, map, found) == [k |-> k, map |-> map, found |-> found]

NoLocal == Local(0, <<>>, NoVal)

\* the target collection as constructed; target documents are only ever deleted
InitTargets == [t \in TargetIds |-> TargetDoc(t)]

Init ==
  /\ primary = [e \in EntityIds |->
                  IF e = "e1" THEN EntityDoc("e1", NoVal, <<>>)
                  ELSE EntityDoc("e2", "t2", <<"t2">>)]
  /\ targets = InitTargets
  /\ pc = "idle"
  /\ call = NoCall
  /\ local = NoLocal
  /\ ret = NoRet
  /\ io = <<>>
  /\ added = NoAdd
  /\ others = 0

(* ---- the course of a read ---- *)
\* the call ends: the caller gets the fault or the value
Finish(err, val, k) ==
  /\ pc' = "done"
  /\ ret' = [err |-> err, val |-> val]
  /\ local' = Local(k, <<>>, NoVal)

\* entity k of the read c is resolved to val: a single read returns it; a batched
\* read sets it in the map under the entity object and goes on to the next
\* entity, or returns the map after the last one
Resolved(c, k, map, val) ==
  IF ~c.batched THEN Finish(NoErr, val, k)
  ELSE IF k = Len(c.dtos) THEN Finish(NoErr, MapSet(map, c.dtos[k], val), k)
  ELSE /\ pc' = "next"
       /\ ret' = NoRet
       /\ local' = Local(k + 1, MapSet(map, c.dtos[k], val), NoVal)

\* the fields of the entity that populate reads to resolve path: the path itself,
\* or the local field of a virtual lookup
PopulateReads(path) ==
  IF isReferencePath(path) THEN {path} ELSE {VirtualPaths[path].localField}

\* the entity found as populate uses it
Found(c, entity) == [f \in PopulateReads(c.rel) |-> entity[f]]

\* mutant: the first store calls of the entities after a faulting one are issued
\* all the same
AdvanceAllStarted(c, k, map, o) ==
  /\ io' = IF o.err # NoErr
           THEN io \o o.io \o [i \in 1..(Len(c.dtos) - k) |-> "primary.findById"]
           ELSE io \o o.io
  /\ IF o.err # NoErr THEN Finish(o.err, NoVal, k)
     ELSE IF o.pending
          THEN pc' = "populate" /\ ret' = NoRet /\ local' = Local(k, map, Found(c, o.found))
          ELSE Resolved(c, k, map, o.val)

\* the first store call of entity k was answered with o: a fault rejects the
\* whole call, an entity found is populated next, anything else is the result
Advance(c, k, map, o) ==
  /\ io' = io \o o.io
  /\ IF o.err # NoErr THEN Finish(o.err, NoVal, k)
     ELSE IF o.pending
          THEN pc' = "populate" /\ ret' = NoRet /\ local' = Local(k, map, Found(c, o.found))
          ELSE Resolved(c, k, map, o.val)

\* the read c is called: its checks, then the first store call of its first entity
ReadStarts(c) ==
  /\ call' = c
  /\ IF readChecks(c.op, c.rel) # NoErr
     THEN io' = <<>> /\ Finish(readChecks(c.op, c.rel), NoVal, 0)
     ELSE IF c.dtos = <<>>
          THEN io' = <<>> /\ Finish(NoErr, <<>>, 0)
          ELSE Advance(c, 1, <<>>, FirstCall(primary, targets, c, c.dtos[1]))
  /\ UNCHANGED <<primary, targets>>

(* ---- actions: the read operations ---- *)
FindRelation ==
  /\ pc = "idle"
  /\ \E batched \in BOOLEAN :
       \E rel \in ReadRels(SingleRels, batched) :
       \E filter \in ReadFilters(batched) :
       \E dtos \in DtoArgs(batched) :
         ReadStarts(ReadCall("findRelation", rel, batched, dtos, filter, 0))

QueryRelations ==
  /\ pc = "idle"
  /\ \E batched \in BOOLEAN :
       \E rel \in ReadRels(ManyRels, batched) :
       \E filter \in ReadFilters(batched), limit \in ReadLimits(batched) :
       \E dtos \in DtoArgs(batched) :
         ReadStarts(ReadCall("queryRelations", rel, batched, dtos, filter, limit))

AggregateRelations ==
  /\ pc = "idle"
  /\ \E batched \in BOOLEAN :
       \E rel \in ReadRels(CountRels, batched) :
       \E filter \in ReadFilters(batched) :
       \E dtos \in DtoArgs(batched) :
         ReadStarts(ReadCall("aggregateRelations", rel, batched, dtos, filter, 0))

CountRelations ==
  /\ pc = "idle"
  /\ \E batched \in BOOLEAN :
       \E rel \in ReadRels(CountRels, batched) :
       \E filter \in ReadFilters(batched) :
       \E dtos \in DtoArgs(batched) :
         ReadStarts(ReadCall("countRelations", rel, batched, dtos, filter, 0))

\* findRelation and queryRelations populate the relation on the entity found
Populates ==
  /\ pc = "populate"
  /\ LET r == SecondCall(targets, call, local.found)
     IN /\ io' = io \o r.io
        /\ Resolved(call, local.k, local.map, r.val)
  /\ UNCHANGED <<primary, targets, call>>

\* a batched read issues the first store call of its next entity
ResolvesNext ==
  /\ pc = "next"
  /\ Advance(call, local.k, local.map,
             FirstCall(primary, targets, call, call.dtos[local.k]))
  /\ UNCHANGED <<primary, targets, call>>

(* ---- actions: the mutations ---- *)
\* the reference array the call would leave stays within MaxTags
FitsTags(c) ==
  (/\ verifyRelationIds(targets, c).err = NoErr
   /\ c.id \in DOMAIN primary
   /\ Matches(primary[c.id], c.entFilter))
  => Len(primary[c.id].tags) + Len(c.ids) <= MaxTags

\* the mutation c is called: the relation check and the count of the relation targets
MutationStarts(c) ==
  /\ call' = c
  /\ io' = verifyRelationIds(targets, c).io
  /\ IF verifyRelationIds(targets, c).err # NoErr
     THEN Finish(verifyRelationIds(targets, c).err, NoVal, 0)
     ELSE pc' = "verified" /\ ret' = NoRet /\ local' = NoLocal
  /\ UNCHANGED <<primary, targets>>

AddRelations ==
  /\ pc = "idle"
  /\ \E rel \in ArrayMutRels, id \in MutIds, ids \in IdLists :
     \E relFilter \in MutRelFilters(rel), entFilter \in MutEntFilters(rel) :
       /\ FitsTags(MutCall("addRelations", rel, id, ids, relFilter, entFilter))
       /\ MutationStarts(MutCall("addRelations", rel, id, ids, relFilter, entFilter))

SetRelation ==
  /\ pc = "idle"
  /\ \E rel \in SingleRels, id \in MutIds, relationId \in TargetIds :
     \E relFilter \in MutRelFilters(rel), entFilter \in MutEntFilters(rel) :
       MutationStarts(MutCall("setRelation", rel, id, <<relationId>>, relFilter, entFilter))

RemoveRelation ==
  /\ pc = "idle"
  /\ \E rel \in SingleRels, id \in MutIds, relationId \in TargetIds :
     \E relFilter \in MutRelFilters(rel), entFilter \in MutEntFilters(rel) :
       MutationStarts(MutCall("removeRelation", rel, id, <<relationId>>, relFilter, entFilter))

RemoveRelations ==
  /\ pc = "idle"
  /\ \E rel \in ArrayMutRels, id \in MutIds, ids \in IdLists :
     \E relFilter \in MutRelFilters(rel), entFilter \in MutEntFilters(rel) :
       MutationStarts(MutCall("removeRelations", rel, id, ids, relFilter, entFilter))

\* mutant: the relation targets are verified again by the update, which is given
\* up when they are no longer found
MutationUpdatesIfVerified ==
  /\ pc = "verified"
  /\ LET v == verifyRelationIds(targets, call)
         fu == findAndUpdate(primary, call.id, call.entFilter, updateQuery(call))
     IN IF v.err # NoErr
        THEN /\ primary' = primary
             /\ io' = io \o v.io
             /\ Finish(v.err, NoVal, 0)
        ELSE /\ primary' = fu.primary
             /\ io' = io \o <<"primary.findOneAndUpdate">>
             /\ IF call.op \in {"addRelations", "setRelation"}
                THEN Finish(fu.err, fu.entity, 0)
                ELSE IF fu.err # NoErr
                     THEN Finish(fu.err, NoVal, 0)
                     ELSE pc' = "updated" /\ ret' = NoRet /\ local' = NoLocal
  /\ UNCHANGED <<targets, call>>

\* the mutation updates the entity with one findOneAndUpdate; addRelations and
\* setRelation return the document the update produced
MutationUpdates ==
  /\ pc = "verified"
  /\ LET fu == findAndUpdate(primary, call.id, call.entFilter, updateQuery(call))
     IN /\ primary' = fu.primary
        /\ io' = io \o <<"primary.findOneAndUpdate">>
        /\ IF call.op \in {"addRelations", "setRelation"}
           THEN Finish(fu.err, fu.entity, 0)
           ELSE IF fu.err # NoErr
                THEN Finish(fu.err, NoVal, 0)
                ELSE pc' = "updated" /\ ret' = NoRet /\ local' = NoLocal
  /\ UNCHANGED <<targets, call>>

\* mutant: the reload raises nothing when the entity is gone
MutationReloadsUnchecked ==
  /\ pc = "updated"
  /\ Finish(NoErr, getById(primary, call.id).entity, 0)
  /\ io' = io \o <<"primary.findById">>
  /\ UNCHANGED <<primary, targets, call>>

\* removeRelation and removeRelations return the entity as reloaded by id
MutationReloads ==
  /\ pc = "updated"
  /\ Finish(getById(primary, call.id).err, getById(primary, call.id).entity, 0)
  /\ io' = io \o <<"primary.findById">>
  /\ UNCHANGED <<primary, targets, call>>

(* ---- actions: the caller and the other users of the store ---- *)
\* the caller takes the outcome; the service keeps nothing of the call
Return ==
  /\ pc = "done"
  /\ pc' = "idle"
  /\ call' = NoCall
  /\ local' = NoLocal
  /\ ret' = NoRet
  /\ io' = <<>>
  /\ UNCHANGED <<primary, targets>>

\* another user of the store deletes an entity, between two calls or between
\* two store calls of a call
DeleteEntity ==
  /\ pc # "done"
  /\ \E e \in DOMAIN primary :
       primary' = [x \in DOMAIN primary \ {e} |-> primary[x]]
  /\ UNCHANGED <<targets, pc, call, local, ret, io>>

\* another user of the store deletes a target document
DeleteTarget ==
  /\ pc # "done"
  /\ \E t \in DOMAIN targets :
       targets' = [x \in DOMAIN targets \ {t} |-> targets[x]]
  /\ UNCHANGED <<primary, pc, call, local, ret, io>>

\* the mutations other callers of the service may have under way between their
\* count of the relation targets and their update: the count was answered at an
\* earlier time, when no target document had yet been deleted at the least
OtherCalls ==
  {c \in {MutCall(op, rel, id, ids, relFilter, entFilter) :
            op \in {"addRelations", "removeRelations"}, rel \in ArrayMutRels,
            id \in OtherArrayIds, ids \in OtherIdLists,
            relFilter \in OtherRelFilters, entFilter \in OtherEntFilters}
          \cup
          {MutCall(op, rel, id, <<relationId>>, relFilter, entFilter) :
            op \in {"setRelation", "removeRelation"}, rel \in SingleRels,
            id \in OtherIds, relationId \in TargetIds,
            relFilter \in OtherRelFilters, entFilter \in OtherEntFilters} :
     verifyRelationIds(InitTargets, c).err = NoErr}

\* the room in the reference array of entity id that the call followed has
\* verified ids for and not yet pushed
Reserved(id) ==
  IF /\ pc = "verified" /\ call.op = "addRelations" /\ call.id = id
     /\ id \in DOMAIN primary /\ Matches(primary[id], call.entFilter)
  THEN Len(call.ids) ELSE 0

\* the update of another caller's mutation commits, between two calls or between
\* two store calls of the call followed; its targets are not verified again
OtherUpdates ==
  /\ pc # "done"
  /\ others < MaxOthers
  /\ others' = others + 1
  /\ \E c \in OtherCalls :
       LET fu == findAndUpdate(primary, c.id, c.entFilter, updateQuery(c))
       IN /\ fu.primary # primary
          /\ Len(fu.primary[c.id].tags) + Reserved(c.id) <= MaxTags
          /\ primary' = fu.primary
  /\ UNCHANGED <<targets, pc, call, local, ret, io>>

Next ==
  \/ FindRelation /\ UNCHANGED <<added, others>>
  \/ QueryRelations /\ UNCHANGED <<added, others>>
  \/ AggregateRelations /\ UNCHANGED <<added, others>>
  \/ CountRelations /\ UNCHANGED <<added, others>>
  \/ Populates /\ UNCHANGED <<added, others>>
  \/ ResolvesNext /\ UNCHANGED <<added, others>>
  \/ AddRelations /\ UNCHANGED <<added, others>>
  \/ SetRelation /\ UNCHANGED <<added, others>>
  \/ RemoveRelation /\ UNCHANGED <<added, others>>
  \/ RemoveRelations /\ UNCHANGED <<added, others>>
  \/ MutationUpdates /\ UNCHANGED <<added, others>>
  \/ MutationReloads /\ UNCHANGED <<added, others>>
  \/ Return /\ UNCHANGED <<added, others>>
  \/ DeleteEntity /\ UNCHANGED <<added, others>>
  \/ DeleteTarget /\ UNCHANGED <<added, others>>
  \/ OtherUpdates /\ UNCHANGED added

Spec == Init /\ [][Next]_vars

(* ---- the round trip: addRelations, then queryRelations ---- *)
\* added records the call of the step when it is the update of a successful
\* addRelations, and is cleared by every other write to either collection
TrackAdd ==
  added' = IF /\ pc = "verified" /\ call.op = "addRelations"
              /\ pc' = "done" /\ ret'.err = NoErr
           THEN [id |-> call.id, ids |-> call.ids]
           ELSE IF primary' # primary \/ targets' # targets THEN NoAdd
           ELSE added

NextRoundTrip ==
  \/ AddRelations /\ TrackAdd /\ UNCHANGED others
  \/ SetRelation /\ TrackAdd /\ UNCHANGED others
  \/ RemoveRelation /\ TrackAdd /\ UNCHANGED others
  \/ RemoveRelations /\ TrackAdd /\ UNCHANGED others
  \/ MutationUpdates /\ TrackAdd /\ UNCHANGED others
  \/ MutationReloads /\ TrackAdd /\ UNCHANGED others
  \/ QueryRelations /\ TrackAdd /\ UNCHANGED others
  \/ Populates /\ TrackAdd /\ UNCHANGED others
  \/ ResolvesNext /\ TrackAdd /\ UNCHANGED others
  \/ Return /\ TrackAdd /\ UNCHANGED others
  \/ DeleteEntity /\ TrackAdd /\ UNCHANGED others
  \/ DeleteTarget /\ TrackAdd /\ UNCHANGED others
  \/ OtherUpdates /\ TrackAdd

SpecRoundTrip == Init /\ [][NextRoundTrip]_vars

TypeOK ==
  /\ DOMAIN primary \subseteq EntityIds
  /\ DOMAIN targets \subseteq TargetIds
  /\ pc \in {"idle", "populate", "next", "verified", "updated", "done"}
  /\ local.k \in 0..MaxBatch
  /\ others \in 0..MaxOthers
  /\ \A e \in DOMAIN primary : Len(primary[e].tags) <= MaxTags

(* ---- properties ---- *)
ReadOps == {"findRelation", "queryRelations", "aggregateRelations", "countRelations"}

MutOps == {"addRelations", "setRelation", "removeRelation", "removeRelations"}

\* the remove operations
RemoveOps == {"removeRelation", "removeRelations"}

\* the step takes a call: its checks and its first store call
Called == pc = "idle" /\ pc' # "idle"

\* the step is the update of a mutation whose relation targets were verified
Updates == pc = "verified" /\ pc' # "verified"

\* the step is the reload of a remove operation
Reloads == pc = "updated" /\ pc' = "done"

\* the step is one of the service, not one of another user of the store
ServiceStep == pc' # pc \/ io' # io

\* the relation name is a direct path that references the target collection
DirectReference(rel) == rel \in DOMAIN SchemaPaths /\ SchemaPaths[rel].ref # NoVal

\* the stored target documents whose id is in ids and that satisfy the relation-filter
Verified(ids, relFilter) ==
  {t \in DOMAIN targets : t \in Range(ids) /\ \A c \in relFilter : targets[t][c.field] = c.val[1]}

\* C1: a call of any of the eight operations, single or batched, on a relation name
\* that is neither a direct path nor a virtual path has failed with the "unknown
\* relation" error and has issued no store call on either collection.
C1_UnknownRelationFailsFirst ==
  (pc # "idle" /\ call.rel \notin DOMAIN SchemaPaths /\ call.rel \notin DOMAIN VirtualPaths)
    => (pc = "done" /\ ret.err = ErrUnknownRelation(call.rel) /\ io = <<>>)

C1_Witness ==
  /\ pc = "done"
  /\ call.op = "aggregateRelations" /\ call.batched /\ Len(call.dtos) = 2
  /\ call.rel = "nope"
  /\ ret.err = ErrUnknownRelation("nope")
  /\ io = <<>>

\* C2: an addRelations call on a direct reference for which the number of verified
\* target documents differs from the length of relationIds fails with "unable to
\* find all ... to add" and leaves the primary collection as it was.
C2_AddAllOrNothing ==
  [][(/\ Called
      /\ call'.op = "addRelations"
      /\ DirectReference(call'.rel)
      /\ Cardinality(Verified(call'.ids, call'.relFilter)) # Len(call'.ids))
     => (pc' = "done" /\ ret'.err = ErrFindAll("add") /\ primary' = primary)]_vars

C2_Witness ==
  /\ pc = "done"
  /\ call.op = "addRelations" /\ call.rel = "tags" /\ Len(call.ids) = 2
  /\ Cardinality(Verified(call.ids, call.relFilter)) = 1
  /\ call.id \in DOMAIN primary
  /\ ret.err = ErrFindAll("add")

\* C3: a setRelation call on a direct reference for which the number of target
\* documents matching relationId under the relation-filter is not exactly one
\* fails with "unable to find ... to set" and leaves the primary collection as it was.
C3_SetNeedsExactlyOne ==
  [][(/\ Called
      /\ call'.op = "setRelation"
      /\ DirectReference(call'.rel)
      /\ Cardinality(Verified(call'.ids, call'.relFilter)) # 1)
     => (pc' = "done" /\ ret'.err = ErrFindOne("set") /\ primary' = primary)]_vars

C3_Witness ==
  /\ pc = "done"
  /\ call.op = "setRelation" /\ call.rel = "owner"
  /\ call.ids[1] \notin DOMAIN targets
  /\ call.id \in DOMAIN primary
  /\ ret.err = ErrFindOne("set")

\* C4: a removeRelations call on a virtual-lookup relation fails with the "not
\* supported" error whether all, some or none of the ids exist in the target
\* collection, and leaves the primary collection as it was.
C4_RemoveRelationsVirtual ==
  [][(Called /\ call'.op = "removeRelations" /\ call'.rel \in DOMAIN VirtualPaths)
     => (/\ pc' = "done"
         /\ ret'.err = ErrNotSupported("RemoveRelations")
         /\ primary' = primary)]_vars

C4_Witness ==
  /\ pc = "done"
  /\ call.op = "removeRelations" /\ call.rel = "vmany" /\ Len(call.ids) = 2
  /\ Range(call.ids) \cap DOMAIN targets # {}
  /\ Range(call.ids) \ DOMAIN targets # {}
  /\ ret.err = ErrNotSupported("RemoveRelations")

\* the keys of a returned map, in order
Keys(map) == [i \in 1..Len(map) |-> map[i].key]

\* a sequence without the later occurrences of its elements
RECURSIVE FirstOccurrences(_)
FirstOccurrences(s) ==
  IF s = <<>> THEN <<>>
  ELSE LET front == FirstOccurrences(SubSeq(s, 1, Len(s) - 1))
       IN IF s[Len(s)] \in Range(front) THEN front ELSE Append(front, s[Len(s)])

BatchedReadDone == pc = "done" /\ call.op \in ReadOps /\ call.batched /\ ret.err = NoErr

\* C5 as stated: the mapping returned by a batched read has as many entries as the
\* input sequence has elements, entry i being that of input element i, also when
\* the same entity object occurs more than once.
C5_OneEntryPerInputElement ==
  BatchedReadDone => (Len(ret.val) = Len(call.dtos) /\ Keys(ret.val) = call.dtos)

\* C5 amended: the mapping returned by a batched read has exactly one entry per
\* distinct input entity object, in order of first occurrence; its size is the
\* length of the input only when no object occurs twice.
C5_OneEntryPerDistinctObject ==
  BatchedReadDone => Keys(ret.val) = FirstOccurrences(call.dtos)

C5_Witness ==
  /\ BatchedReadDone
  /\ call.op = "queryRelations"
  /\ Len(call.dtos) = 2 /\ call.dtos[1] = call.dtos[2]
  /\ Len(ret.val) = 1
  /\ ret.val[1].value = <<>>

\* the foreign-key value of the relation on the caller's copy is empty or absent
EmptyForeignKey(rel, doc) ==
  \/ rel = "owner" /\ doc.owner = NoVal
  \/ rel = "tags" /\ doc.tags = <<>>
  \/ rel \in DOMAIN VirtualPaths /\ doc[VirtualPaths[rel].localField] = NoVal

SingleReadDone(op) == pc = "done" /\ call.op = op /\ ~call.batched

TargetQueries == {"target.count", "target.aggregate", "target.find"}

\* C6: with an empty or absent foreign-key value on the caller's copy (unset
\* single reference, empty reference array, absent local field of a virtual
\* lookup) countRelations returns 0 and aggregateRelations returns the empty
\* response, and no count or aggregate query is issued to the target collection.
C6_EmptyKeyNoQuery ==
  /\ (SingleReadDone("countRelations") /\ EmptyForeignKey(call.rel, call.dtos[1].doc))
       => (ret.err = NoErr /\ ret.val = 0 /\ Range(io) \cap TargetQueries = {})
  /\ (SingleReadDone("aggregateRelations") /\ EmptyForeignKey(call.rel, call.dtos[1].doc))
       => (ret.err = NoErr /\ ret.val = EmptyAgg /\ Range(io) \cap TargetQueries = {})

\* countRelations on the single reference of a copy that holds none has returned
\* 0, after a count query to the target collection
C6_Witness ==
  /\ SingleReadDone("countRelations")
  /\ call.rel = "owner" /\ call.dtos[1].doc.owner = NoVal
  /\ ret.err = NoErr /\ ret.val = 0
  /\ io = <<"target.count">>

\* the relation resolves to the target collection, directly or by a virtual lookup
Resolvable(rel) == DirectReference(rel) \/ rel \in DOMAIN VirtualPaths

\* the stored target documents the caller's copy doc refers to through rel, under filter
ReferredByCopy(rel, doc, filter) ==
  {t \in DOMAIN targets :
     /\ \A c \in filter : targets[t][c.field] = c.val[1]
     /\ CASE rel = "owner" -> t = doc.owner
          [] rel = "tags" -> t \in Range(doc.tags)
          [] OTHER -> targets[t][VirtualPaths[rel].foreignField] = doc[VirtualPaths[rel].localField]}

\* the step takes a single read of an entity that is not in the primary collection
ReadOfDeletedSource ==
  /\ Called
  /\ call'.op \in ReadOps /\ ~call'.batched /\ Resolvable(call'.rel)
  /\ call'.dtos[1].doc._id \notin DOMAIN primary

\* C7 as stated: a read given a source entity that is no longer in the primary
\* collection returns its empty result: findRelation not-found, queryRelations the
\* empty list, aggregateRelations the empty response, countRelations 0.
C7_DeletedSourceReadsEmpty ==
  [][ReadOfDeletedSource
     => /\ pc' = "done" /\ ret'.err = NoErr
        /\ call'.op = "findRelation" => ret'.val = Undefined
        /\ call'.op = "queryRelations" => ret'.val = <<>>
        /\ call'.op = "aggregateRelations" => ret'.val = EmptyAgg
        /\ call'.op = "countRelations" => ret'.val = 0]_vars

\* C7 amended: given a source entity that is not in the primary collection when
\* it is fetched, findRelation returns not-found and queryRelations the empty
\* list without raising; aggregateRelations and countRelations do not look the
\* entity up and return the aggregate and the count of the targets the caller's
\* copy refers to.
C7_DeletedSourceFindQueryEmpty ==
  [][ReadOfDeletedSource
     => LET referred == ReferredByCopy(call'.rel, call'.dtos[1].doc, call'.filter)
        IN /\ pc' = "done" /\ ret'.err = NoErr
           /\ call'.op = "findRelation" => ret'.val = Undefined
           /\ call'.op = "queryRelations" => ret'.val = <<>>
           /\ call'.op = "countRelations" => ret'.val = Cardinality(referred)
           /\ call'.op = "aggregateRelations"
                => ret'.val = IF referred = {} THEN EmptyAgg
                              ELSE {<<"count", Cardinality(referred)>>}]_vars

C7_Witness ==
  /\ SingleReadDone("countRelations")
  /\ call.rel = "tags"
  /\ call.dtos[1].doc._id \notin DOMAIN primary
  /\ call.dtos[1].doc.tags = <<"t2">> /\ "t2" \in DOMAIN targets
  /\ ret.err = NoErr
  /\ ret.val = 1

\* C8: a queryRelations without paging limit on the array relation and the entity
\* of the last successful addRelations, with no write to either collection in
\* between, returns the target document of every added id that satisfies the
\* filter of the query.
C8_AddThenQuery ==
  (/\ SingleReadDone("queryRelations")
   /\ added # NoAdd
   /\ call.rel = "tags" /\ call.dtos[1].doc._id = added.id /\ call.limit = 0)
    => /\ ret.err = NoErr
       /\ \A t \in Range(added.ids) :
            (t \in DOMAIN targets /\ \A c \in call.filter : targets[t][c.field] = c.val[1])
              => \E i \in 1..Len(ret.val) : ret.val[i]._id = t

C8_Witness ==
  /\ SingleReadDone("queryRelations")
  /\ added # NoAdd /\ Len(added.ids) = 2
  /\ call.rel = "tags" /\ call.dtos[1].doc._id = added.id /\ call.limit = 0
  /\ call.dtos[1].doc.tags = <<>>
  /\ call.filter # {}
  /\ Len(ret.val) = 1

\* some stored entity has the id and satisfies the caller filter
Located(id, entFilter) ==
  id \in DOMAIN primary /\ \A c \in entFilter : primary[id][c.field] = c.val[1]

\* C9: the update of a mutation whose target verification passed, for which no
\* stored entity has the id and satisfies the caller filter, fails the call with
\* "not found" and leaves every primary document as it was.
C9_MutationScopedByFilter ==
  [][(Updates /\ ~Located(call.id, call.entFilter))
     => (pc' = "done" /\ ret'.err = ErrNotFound(call.id) /\ primary' = primary)]_vars

C9_Witness ==
  /\ pc = "done"
  /\ call.op = "addRelations" /\ call.rel = "tags" /\ Len(call.ids) = 1
  /\ call.id \in DOMAIN primary
  /\ call.entFilter = {Cmp("grp", "eq", "b")}
  /\ primary[call.id].grp = "a"
  /\ ret.err = ErrNotFound(call.id)

\* C10: every mutation called on a virtual-lookup relation fails with the "not
\* supported" error of that operation and leaves the primary collection as it
\* was; every read called on a direct-reference or virtual-lookup relation is
\* accepted (it raises no fault).
C10_RelationKindGating ==
  [][/\ (Called /\ call'.op \in MutOps /\ call'.rel \in DOMAIN VirtualPaths)
          => (/\ pc' = "done"
              /\ ret'.err = ErrNotSupported(OperationName[call'.op])
              /\ primary' = primary)
     /\ (call'.op \in ReadOps /\ Resolvable(call'.rel)) => ret'.err = NoErr]_vars

C10_Witness ==
  /\ pc = "done"
  /\ call.op = "setRelation" /\ call.rel = "vone"
  /\ call.ids[1] \in DOMAIN targets
  /\ call.id \in DOMAIN primary
  /\ ret.err = ErrNotSupported("SetRelation")

\* s is a prefix of t
IsPrefix(s, t) == Len(s) <= Len(t) /\ \A i \in 1..Len(s) : s[i] = t[i]

\* the fields of the stored entity other than the given one are the same after the step
OtherFieldsKept(id, field) ==
  \A f \in DOMAIN primary[id] \ {field} : primary'[id][f] = primary[id][f]

\* every stored entity other than the given one is the same after the step
OtherEntitiesKept(id) ==
  /\ DOMAIN primary' = DOMAIN primary
  /\ \A e \in DOMAIN primary \ {id} : primary'[e] = primary[e]

\* C11: the update of an addRelations call that succeeds leaves the array
\* holding the previously stored ids in their places followed by the given ids
\* in list order, and the call returns the entity as stored by the update; a
\* call that fails leaves the array as it was (tags [t1,t2] stays [t1,t2] when a
\* second add names t1 and a missing target).
C11_AddAppendsInOrder ==
  [][/\ (Updates /\ call.op = "addRelations")
          => IF ret'.err = NoErr
             THEN LET before == primary[call.id].tags
                      after == primary'[call.id].tags
                      n == Len(before)
                  IN /\ pc' = "done"
                     /\ IsPrefix(before, after)
                     /\ Len(after) = n + Len(call.ids)
                     /\ \A i \in 1..Len(call.ids) : after[n + i] = call.ids[i]
                     /\ ret'.val = primary'[call.id]
                     /\ OtherFieldsKept(call.id, "tags")
                     /\ OtherEntitiesKept(call.id)
             ELSE primary' = primary
     /\ (Called /\ call'.op = "addRelations") => primary' = primary]_vars

\* the second call of the sequence: tags is [t1,t2], the call names t1 and a
\* target that is missing, and has failed
C11_Witness ==
  /\ pc = "done"
  /\ call.op = "addRelations" /\ call.rel = "tags"
  /\ call.ids = <<"t1", "t2">>
  /\ "t1" \in DOMAIN targets /\ "t2" \notin DOMAIN targets
  /\ call.id \in DOMAIN primary
  /\ primary[call.id].tags = <<"t1", "t2">>
  /\ ret.err = ErrFindAll("add")

\* C12: the update of a setRelation call that succeeds leaves the single
\* reference field equal to relationId whatever it held before, and changes no
\* other field of that entity and no other entity.
C12_SetOverwritesOnlyTheField ==
  [][(Updates /\ call.op = "setRelation" /\ ret'.err = NoErr)
     => /\ primary'[call.id][call.rel] = call.ids[1]
        /\ OtherFieldsKept(call.id, call.rel)
        /\ OtherEntitiesKept(call.id)]_vars

\* the field has been set on an entity that also holds array references, while
\* the other entity still is as it was created
C12_Witness ==
  /\ pc = "done"
  /\ call.op = "setRelation" /\ call.rel = "owner" /\ ret.err = NoErr
  /\ primary[call.id].owner = call.ids[1]
  /\ primary[call.id].tags # <<>>
  /\ "e2" \in DOMAIN primary /\ primary["e2"] = EntityDoc("e2", "t2", <<"t2">>)

\* the target ids the stored entity holds in the relation
Held(doc, rel) ==
  IF SchemaPaths[rel].array THEN Range(doc[rel]) ELSE {doc[rel]} \ {NoVal}

\* the relation-target verification of the mutation passes
VerificationPasses(c) ==
  IF c.op \in {"addRelations", "removeRelations"}
  THEN Cardinality(Verified(c.ids, c.relFilter)) = Len(c.ids)
  ELSE Cardinality(Verified(c.ids, c.relFilter)) = 1

\* the error of a remove operation whose target verification failed
RemoveVerificationError(op) ==
  IF op = "removeRelation" THEN ErrFindOne("remove") ELSE ErrFindAll("remove")

\* a remove operation whose target verification fails raises "unable to find"
\* and removes nothing
FailedVerificationRemovesNothing ==
  (/\ Called
   /\ call'.op \in RemoveOps
   /\ DirectReference(call'.rel)
   /\ ~VerificationPasses(call'))
  => (/\ pc' = "done"
      /\ ret'.err = RemoveVerificationError(call'.op)
      /\ primary' = primary)

\* a reference the entity holds to a target that is deleted or outside the
\* relation-filter when the update is made is still held after it
UnverifiableReferencesKept ==
  (Updates /\ call.op \in RemoveOps /\ call.id \in DOMAIN primary)
  => \A t \in Held(primary[call.id], call.rel) :
       Verified(<<t>>, call.relFilter) = {}
         => (call.id \in DOMAIN primary' /\ t \in Held(primary'[call.id], call.rel))

\* removeRelations removes no reference but those to the ids it was given
OnlyGivenIdsPulled ==
  (Updates /\ call.op = "removeRelations" /\ call.id \in DOMAIN primary)
  => \A t \in Held(primary[call.id], call.rel) \ Range(call.ids) :
       call.id \in DOMAIN primary' /\ t \in Held(primary'[call.id], call.rel)

\* C13 as stated: a remove operation whose target verification fails raises
\* "unable to find" and removes nothing, and neither remove operation removes a
\* reference to a target that is deleted or outside the relation-filter.
C13_NoRemovalOfUnverifiableReference ==
  [][FailedVerificationRemovesNothing /\ UnverifiableReferencesKept]_vars

\* C13: a remove operation whose target verification fails when the targets are
\* counted raises "unable to find" and removes nothing; removeRelations removes
\* only references to the ids it was given, all of which its count found in
\* scope (removeRelation checks only the id it is given, not the id the field
\* holds, and a target may be deleted between the count and the update).
C13_RemoveVerifiesGivenIds ==
  [][FailedVerificationRemovesNothing /\ OnlyGivenIdsPulled]_vars

\* removeRelations was given one stored id that is in scope and has succeeded,
\* and the entity still holds a reference to a deleted target
C13_Witness ==
  /\ pc = "done"
  /\ call.op = "removeRelations" /\ call.rel = "tags" /\ ret.err = NoErr
  /\ call.ids = <<"t1">>
  /\ "t1" \in DOMAIN targets /\ "t2" \notin DOMAIN targets
  /\ primary[call.id].tags = <<"t2">>

\* the step is the update of addRelations or setRelation
AddOrSetUpdates == Updates /\ call.op \in {"addRelations", "setRelation"}

\* C14: the count of the relation targets and the update of the entity are two
\* store calls of addRelations and setRelation with nothing held in between:
\* once the count has passed, the update of a located entity commits and stores
\* the given ids whatever other users did to the target collection meanwhile, so
\* an entity comes to reference a target that was deleted after it was verified.
C14_UpdateCommitsOnEarlierCheck ==
  [][(AddOrSetUpdates /\ Located(call.id, call.entFilter))
     => /\ pc' = "done" /\ ret'.err = NoErr
        /\ io' = <<"target.count", "primary.findOneAndUpdate">>
        /\ Range(call.ids) \subseteq Held(primary'[call.id], call.rel)
        /\ OtherEntitiesKept(call.id)
        /\ targets' = targets]_vars

\* addRelations has succeeded with an id that its count found and that is not
\* in the target collection when the update has committed: another user deleted
\* the target between the two store calls
C14_Witness ==
  /\ pc = "done"
  /\ call.op = "addRelations" /\ call.rel = "tags" /\ ret.err = NoErr
  /\ io = <<"target.count", "primary.findOneAndUpdate">>
  /\ \E t \in Range(call.ids) :
       t \notin DOMAIN targets /\ t \in Range(primary[call.id].tags)

\* the first store calls of the resolution of an entity
FirstCalls == {"primary.findById", "target.count", "target.aggregate"}

\* the number of entities whose resolution has issued a store call
Entered(log) == Cardinality({i \in 1..Len(log) : log[i] \in FirstCalls})

\* the number of entities of the batch whose resolution has begun
Started == IF pc = "next" THEN local.k - 1 ELSE local.k

\* C15: a batched read resolves its entities one after another in input order:
\* the store calls of a step are those of the one entity being resolved, the
\* next entity is entered only when the one before is set in the map; when the
\* resolution of an entity raises a fault the call fails at once with that
\* fault and without a mapping, and no store call is issued for the entities
\* after it.
C15_BatchSequentialFailFast ==
  [][(call'.op \in ReadOps /\ call'.batched)
     => /\ Started' \in {Started, Started + 1}
        /\ Entered(io') <= local'.k
        /\ Entered(io') <= Entered(io) + 1
        /\ pc' = "populate" => Entered(io') = local'.k
        /\ pc' = "next"
             => /\ Entered(io') = local'.k - 1
                /\ Keys(local'.map) = FirstOccurrences(SubSeq(call'.dtos, 1, local'.k - 1))
        /\ (pc' = "done" /\ ret'.err = NoErr /\ call'.dtos # <<>>)
             => (local'.k = Len(call'.dtos) /\ Entered(io') = Len(call'.dtos))
        /\ (pc' = "done" /\ ret'.err # NoErr) => ret'.val = NoVal
        /\ (pc = "next" /\ io' # io
              /\ FirstCall(primary, targets, call, call.dtos[local.k]).err # NoErr)
             => /\ pc' = "done"
                /\ ret'.err = FirstCall(primary, targets, call, call.dtos[local.k]).err]_vars

\* the resolution of the first of two stored entities has raised after its
\* fetch, and the second entity was not fetched
C15_Witness ==
  /\ pc = "done"
  /\ call.op = "findRelation" /\ call.batched /\ call.rel = "grp"
  /\ Len(call.dtos) = 2
  /\ call.dtos[1].doc._id # call.dtos[2].doc._id
  /\ \A k \in 1..2 : call.dtos[k].doc._id \in DOMAIN primary
  /\ ret.err = ErrLookup("grp")
  /\ io = <<"primary.findById">>

\* C16: the entity a successful addRelations or setRelation returns is the
\* document its own update stored; the outcome of removeRelation and
\* removeRelations is that of a later reload by id, which writes nothing: the
\* entity as stored at the time of the reload, with what other users wrote after
\* the update, or "not found" when the entity is gone by then.
C16_ReturnedEntity ==
  [][/\ (AddOrSetUpdates /\ ret'.err = NoErr)
          => (pc' = "done" /\ ret'.val = primary'[call.id] /\ OtherEntitiesKept(call.id))
     /\ (Updates /\ call.op \in RemoveOps /\ Located(call.id, call.entFilter))
          => pc' = "updated"
     /\ Reloads
          => /\ call.op \in RemoveOps
             /\ io' = <<"target.count", "primary.findOneAndUpdate", "primary.findById">>
             /\ primary' = primary
             /\ IF call.id \in DOMAIN primary
                THEN ret'.err = NoErr /\ ret'.val = primary[call.id]
                ELSE ret'.err = ErrNotFound(call.id)]_vars

\* removeRelation has returned an entity whose single reference is set: another
\* caller set it between the update that unset it and the reload
C16_Witness ==
  /\ pc = "done"
  /\ call.op = "removeRelation" /\ call.rel = "owner" /\ ret.err = NoErr
  /\ io = <<"target.count", "primary.findOneAndUpdate", "primary.findById">>
  /\ ret.val.owner # NoVal

\* C17: the update of a removeRelation call whose relationId passed the
\* existence check, on an entity that is located, leaves the field absent
\* whatever it held, also when it held a target other than relationId; nothing
\* else is changed.
C17_RemoveUnsetsWhateverIsHeld ==
  [][(Updates /\ call.op = "removeRelation" /\ Located(call.id, call.entFilter))
     => /\ pc' = "updated"
        /\ primary'[call.id][call.rel] = NoVal
        /\ OtherFieldsKept(call.id, call.rel)
        /\ OtherEntitiesKept(call.id)]_vars

\* the field has been unset by a call that named t1
C17_Witness ==
  /\ pc = "done"
  /\ call.op = "removeRelation" /\ call.rel = "owner" /\ ret.err = NoErr
  /\ call.ids = <<"t1">>
  /\ primary[call.id].owner = NoVal
  /\ primary[call.id].tags # <<>>

\* the elements of s that are not in S, in their order
RECURSIVE Without(_, _)
Without(s, S) ==
  IF s = <<>> THEN <<>>
  ELSE IF Head(s) \in S THEN Without(Tail(s), S)
  ELSE <<Head(s)>> \o Without(Tail(s), S)

\* C18: the update of a removeRelations call whose ids all passed the existence
\* check, on an entity that is located, succeeds whether or not the ids are in
\* the array, and leaves the array without any occurrence of a given id and with
\* all other stored ids in their original relative order.
C18_RemovePullsEveryOccurrence ==
  [][(Updates /\ call.op = "removeRelations" /\ Located(call.id, call.entFilter))
     => /\ pc' = "updated"
        /\ primary'[call.id].tags = Without(primary[call.id].tags, Range(call.ids))
        /\ OtherFieldsKept(call.id, "tags")
        /\ OtherEntitiesKept(call.id)]_vars

\* one id was given, the array holds another id afterwards
C18_Witness ==
  /\ pc = "done"
  /\ call.op = "removeRelations" /\ call.rel = "tags" /\ ret.err = NoErr
  /\ Len(call.ids) = 1
  /\ Len(primary[call.id].tags) = 1
  /\ call.ids[1] \notin Range(primary[call.id].tags)

\* C19: no step of a read, single or batched, succeeding or failing, changes a
\* primary or a target document; a mutation changes no target document and, in
\* its update step only, at most one primary document, and creates or deletes
\* none.
C19_ReadsWriteNothing ==
  [][ServiceStep
     => /\ targets' = targets
        /\ DOMAIN primary' = DOMAIN primary
        /\ call'.op \notin MutOps => primary' = primary
        /\ call'.op \in MutOps
             => /\ Cardinality({e \in DOMAIN primary : primary'[e] # primary[e]}) <= 1
                /\ primary' # primary => Updates]_vars

\* a mutation has written the first entity and the second is as it was created
C19_Witness ==
  /\ pc = "done"
  /\ call.op = "setRelation" /\ call.rel = "owner" /\ ret.err = NoErr
  /\ call.entFilter = {}
  /\ primary[call.id].owner = "t1"
  /\ "e2" \in DOMAIN primary /\ primary["e2"] = EntityDoc("e2", "t2", <<"t2">>)
  /\ DOMAIN targets = TargetIds

====
